---- MODULE Spec2Model ----
(***************************************************************************)
(* Model of the request-validation pipeline of the http-server package:    *)
(* AjvValidator (createSchema, createJsonSchema, addSchemaToAjvInstances,  *)
(* createValidatorFunction, formatAjvError), of the GraphQL resolver       *)
(* builder (the arg decorator, createResolversAndSchemas) and of the       *)
(* mongoose hook adapter (createRegisterHooks, createHandlerArgs).         *)
(*                                                                         *)
(* JSON values are records.  A JSON-Schema node is one of                  *)
(*   [kind |-> "true"]                       the boolean schema `true`     *)
(*   [kind |-> "prim", type |-> t]           { type: t }                   *)
(*   [kind |-> "_ref", def |-> d]            { _$ref: <EntityDefinition> } *)
(*   [kind |-> "ref", ref |-> id]            { $ref: id }                  *)
(*   [kind |-> "array", items |-> s]         { type: 'array', items: s }   *)
(*   [kind |-> "object", oid, id, title, properties, required]             *)
(* where oid is the identity of the JavaScript object (0: an object that   *)
(* was not built by createJsonSchema), id is $id, and properties is the    *)
(* ordered list of [n |-> name, v |-> schema] (insertion order).           *)
(***************************************************************************)
EXTENDS Integers, Sequences, FiniteSets, TLC

VARIABLES
    jsonSchemasMap,   \* this.jsonSchemasMap: key -> fragment
    ajvInstances,     \* this.ajvInstances: source -> schemas added to that Ajv
    nextOid,          \* identity given to the next object createJsonSchema builds
    pc,               \* position of the createValidatorFunction call in flight
    endpointSchema,   \* the endpointSchema of the call in flight / last returned
    processed,        \* the parameterConfigs mapSeries has gone through so far
    validateFns,      \* the compiled { source, validateFn } list of the last route
    steps,            \* parameterConfigs mapSeries has gone through, all calls
    outcome,          \* outcome of the last invocation of the validation function
    argsMetadata,     \* the 'tsgraphql:args' metadata of Controller.prototype
    resolvers,        \* the resolvers createResolversAndSchemas returned
    handlerCall,      \* the last call a resolver made to its controller method
    mongooseSchema,   \* the middleware registered on the mongoose schema
    invocation,       \* the database operation in flight and its hook wrappers
    twin              \* two validators built from routes differing in body required

validatorVars == <<jsonSchemasMap, ajvInstances, nextOid, pc, endpointSchema,
                   processed, validateFns, steps, outcome>>

resolverVars == <<argsMetadata, resolvers, handlerCall>>

hookVars == <<mongooseSchema, invocation>>

vars == <<validatorVars, resolverVars, hookVars, twin>>

\* ---------------------------------------------------------------- bounds
\* parameterConfigs processed over all createValidatorFunction calls
MaxSteps == 3
\* frames the recursion of createJsonSchema may take before a RangeError
MaxStack == 3
\* parameters of the widest controller method
MaxArity == 2
\* handlers registered on the mongoose schema
MaxHandlers == 2

\* ------------------------------------------------------------- constants
\* JavaScript's undefined, where a string ($id, title) is expected
NoId == "undefined"

sources == <<"path", "header", "query", "body">>

Sources == {sources[i] : i \in 1..Len(sources)}

sourceToSchemaMap ==
    [s \in Sources |->
        CASE s = "path" -> "params"
          [] s = "query" -> "querystring"
          [] s = "header" -> "headers"
          [] s = "body" -> "body"]

\* ---------------------------------------------------------- the registry
\* The entity classes declared by the application.
Defs == {"Phone", "PhoneB", "Customer", "Account", "Anon", "Holder",
         "Node", "PairA", "PairB", "Loop"}

\* Parameter types: the entity classes, a primitive and an array of entities.
Types == Defs \cup {"String", "PhoneList"}

Prim(t) == [kind |-> "prim", type |-> t]

InternalRef(d) == [kind |-> "_ref", def |-> d]

ArrayOf(s) == [kind |-> "array", items |-> s]

Prop(n, v) == [n |-> n, v |-> v]

\* title of an entity class; PhoneB is a second class that declares the
\* title "Phone", Anon and Loop declare none
TitleOf(d) ==
    CASE d = "PhoneB" -> "Phone"
      [] d \in {"Anon", "Loop"} -> NoId
      [] OTHER -> d

DeclaredProperties(d) ==
    CASE d = "Phone" -> <<Prop("number", Prim("number"))>>
      [] d = "PhoneB" -> <<Prop("number", Prim("string"))>>
      [] d = "Customer" -> <<Prop("firstname", Prim("string")),
                             Prop("phones", ArrayOf(InternalRef("Phone")))>>
      [] d = "Account" -> <<Prop("phone", InternalRef("Phone"))>>
      [] d = "Anon" -> <<Prop("street", Prim("string"))>>
      [] d = "Holder" -> <<Prop("addr", InternalRef("Anon")),
                           Prop("past", ArrayOf(InternalRef("Anon")))>>
      [] d = "Node" -> <<Prop("next", InternalRef("Node"))>>
      [] d = "PairA" -> <<Prop("b", InternalRef("PairB"))>>
      [] d = "PairB" -> <<Prop("a", InternalRef("PairA"))>>
      [] d = "Loop" -> <<Prop("self", InternalRef("Loop"))>>

DeclaredRequired(d) ==
    CASE d = "Phone" -> <<"number">>
      [] d = "Customer" -> <<"firstname">>
      [] OTHER -> <<>>

\* EntityDefinition.getJsonSchema(): the raw declared schema of an entity
EntityJsonSchema(d) ==
    [kind |-> "object", oid |-> 0, id |-> NoId, title |-> TitleOf(d),
     properties |-> DeclaredProperties(d), required |-> DeclaredRequired(d)]

\* entityRegistry.getJsonSchema(type)
getJsonSchema(type) ==
    CASE type \in Defs -> EntityJsonSchema(type)
      [] type = "String" -> Prim("string")
      [] type = "PhoneList" -> ArrayOf(InternalRef("Phone"))

\* Keys of jsonSchemasMap.  A class (TypeValue) and the EntityDefinition the
\* registry holds for it are two different objects, hence two different keys.
TypeKey(type) == <<"type", type>>

DefKey(d) == <<"definition", d>>

UndefinedKey == <<"undefined", "undefined">>

\* entityRegistry.getEntityDefinitionMap().get(type)
getEntityDefinition(type) ==
    IF type \in Defs THEN DefKey(type) ELSE UndefinedKey

\* ------------------------------------------------------------- Map / Ajv
MapHas(map, key) == key \in DOMAIN map

MapSet(map, key, value) ==
    [k \in (DOMAIN map) \cup {key} |-> IF k = key THEN value ELSE map[k]]

\* $id of a schema node (undefined unless the node carries one)
IdOf(schema) == IF schema.kind = "object" THEN schema.id ELSE NoId

\* ajv.getSchema(id): is a schema registered under that key
AjvHasSchema(ajv, id) == \E i \in 1..Len(ajv) : IdOf(ajv[i]) = id

\* ajv.addSchema(schema)
AjvAddSchema(ajv, schema) == Append(ajv, schema)

\* mutant: adds the schema without asking the engine whether it has the id
addSchemaToAjvInstances_NoGuard(instances, schema) ==
    [s \in Sources |-> AjvAddSchema(instances[s], schema)]

addSchemaToAjvInstances(instances, schema) ==
    [s \in Sources |->
        IF ~AjvHasSchema(instances[s], IdOf(schema))
        THEN AjvAddSchema(instances[s], schema)
        ELSE instances[s]]

\* ------------------------------------------------------ createJsonSchema
\* The validator state a synthesis reads and writes, threaded through the
\* recursion: [map |-> jsonSchemasMap, ajv |-> ajvInstances, oid |-> nextOid].
\* Every operator returns [ok, st, ...]; ok = FALSE is the RangeError thrown
\* when the recursion exceeds the call stack (MaxStack frames).

\* Only({e(r) : r \in {v}}) is e(v) with v evaluated once (a local const)
Only(S) == CHOOSE x \in S : TRUE

\* the entities a declared schema node refers to
RefTarget(v) ==
    IF v.kind = "_ref" THEN {v.def}
    ELSE IF v.kind = "array" /\ v.items.kind = "_ref" THEN {v.items.def}
    ELSE {}

\* { $ref: id } for a single reference, { ...propValue, items: { $ref: id } }
\* for an array of references
Pointer(v, id) ==
    IF v.kind = "_ref" THEN [kind |-> "ref", ref |-> id]
    ELSE [v EXCEPT !.items = [kind |-> "ref", ref |-> id]]

RECURSIVE createJsonSchema(_, _, _)
RECURSIVE synthesizeRef(_, _, _)
RECURSIVE mapProperties(_, _, _, _)

\* The reference branches of createJsonSchema: synthesize the referenced
\* entity from the cached fragment or else from its raw schema, then cache
\* and register the result unless the map already has the entity.
synthesizeRef(d, st, depth) ==
    Only({IF ~r.ok THEN r
          ELSE IF ~MapHas(r.st.map, DefKey(d))
               THEN [r EXCEPT !.st.map = MapSet(@, DefKey(d), r.frag),
                              !.st.ajv = addSchemaToAjvInstances(@, r.frag)]
               ELSE r
          : r \in {createJsonSchema(IF MapHas(st.map, DefKey(d))
                                    THEN st.map[DefKey(d)]
                                    ELSE EntityJsonSchema(d),
                                    st, depth + 1)}})

\* mapObject over the `properties` of a schema, left to right
mapProperties(props, done, st, depth) ==
    IF props = <<>> THEN [ok |-> TRUE, st |-> st, props |-> done]
    ELSE LET p == Head(props) IN
         IF RefTarget(p.v) = {}
         THEN mapProperties(Tail(props), Append(done, p), st, depth)
         ELSE Only({IF ~r.ok THEN [ok |-> FALSE, st |-> r.st, props |-> done]
                    ELSE mapProperties(Tail(props),
                            Append(done, Prop(p.n, Pointer(p.v, IdOf(r.frag)))),
                            r.st, depth)
                    : r \in {synthesizeRef(CHOOSE d \in RefTarget(p.v) : TRUE,
                                           st, depth)}})

createJsonSchema(jsonSchema, st, depth) ==
    IF depth > MaxStack THEN [ok |-> FALSE, st |-> st, frag |-> jsonSchema]
    ELSE IF jsonSchema.kind = "object"
    THEN Only({IF ~m.ok THEN [ok |-> FALSE, st |-> m.st, frag |-> jsonSchema]
               ELSE [ok |-> TRUE,
                     st |-> [m.st EXCEPT !.oid = @ + 1],
                     frag |-> [jsonSchema EXCEPT
                                 !.oid = m.st.oid,
                                 !.id = IF jsonSchema.id # NoId THEN jsonSchema.id
                                        ELSE jsonSchema.title,
                                 !.properties = m.props]]
               : m \in {mapProperties(jsonSchema.properties, <<>>, st, depth)}})
    ELSE IF jsonSchema.kind = "array" /\ jsonSchema.items.kind = "_ref"
    THEN Only({IF ~r.ok THEN [ok |-> FALSE, st |-> r.st, frag |-> jsonSchema]
               ELSE [ok |-> TRUE, st |-> r.st,
                     frag |-> ArrayOf([kind |-> "ref", ref |-> IdOf(r.frag)])]
               : r \in {synthesizeRef(jsonSchema.items.def, st, depth)}})
    ELSE [ok |-> TRUE, st |-> st, frag |-> jsonSchema]

\* ----------------------------------------------------------- createSchema
\* JavaScript objects with string keys, as ordered property lists
ObjHas(props, n) == \E i \in 1..Len(props) : props[i].n = n

ObjGet(props, n) == props[CHOOSE i \in 1..Len(props) : props[i].n = n].v

ObjSet(props, n, v) ==
    IF ObjHas(props, n)
    THEN [i \in 1..Len(props) |-> IF props[i].n = n THEN Prop(n, v) ELSE props[i]]
    ELSE Append(props, Prop(n, v))

\* A ParameterConfiguration: [source, name, type, required, disabled], where
\* required is options.required and disabled is options.validation.disabled.
SkippedSources == {"context", "request", "response"}

\* { type: 'object', properties: {}, required: [] }
EmptyObjectSchema ==
    [kind |-> "object", oid |-> 0, id |-> NoId, title |-> NoId,
     properties |-> <<>>, required |-> <<>>]

\* the endpointSchema createSchema starts from
EmptyEndpointSchema == [properties |-> <<>>, required |-> <<>>]

\* this.jsonSchemasMap.get(parameterConfig.type) ?? this.createJsonSchema(...)
lookupOrCreateJsonSchema(p, st) ==
    IF MapHas(st.map, TypeKey(p.type))
    THEN [ok |-> TRUE, st |-> st, frag |-> st.map[TypeKey(p.type)]]
    ELSE createJsonSchema(getJsonSchema(p.type), st, 1)

\* if (!this.jsonSchemasMap.has(entityDefinition) && jsonSchema.$id) { set; add }
cacheParameterSchema(p, jsonSchema, st) ==
    LET entityDefinition == getEntityDefinition(p.type) IN
    IF ~MapHas(st.map, entityDefinition) /\ IdOf(jsonSchema) # NoId
    THEN [st EXCEPT !.map = MapSet(@, entityDefinition, jsonSchema),
                    !.ajv = addSchemaToAjvInstances(@, jsonSchema)]
    ELSE st

\* mutant: a required parameter is pushed even when its validation is disabled
setPartitionProperty_RequiredIgnoresDisabled(p, jsonSchema, es) ==
    LET schemaProp == sourceToSchemaMap[p.source]
        enabledValidation == ~p.disabled
        old == IF ObjHas(es.properties, schemaProp)
               THEN ObjGet(es.properties, schemaProp)
               ELSE EmptyObjectSchema
        withProp == [old EXCEPT !.properties =
                        ObjSet(@, p.name, IF enabledValidation THEN jsonSchema
                                          ELSE [kind |-> "true"])]
        withRequired == IF p.required
                        THEN [withProp EXCEPT !.required = Append(@, p.name)]
                        ELSE withProp
    IN [es EXCEPT !.properties = ObjSet(@, schemaProp, withRequired)]

\* the path / query / header branch
setPartitionProperty(p, jsonSchema, es) ==
    LET schemaProp == sourceToSchemaMap[p.source]
        enabledValidation == ~p.disabled
        old == IF ObjHas(es.properties, schemaProp)
               THEN ObjGet(es.properties, schemaProp)
               ELSE EmptyObjectSchema
        withProp == [old EXCEPT !.properties =
                        ObjSet(@, p.name, IF enabledValidation THEN jsonSchema
                                          ELSE [kind |-> "true"])]
        withRequired == IF enabledValidation /\ p.required
                        THEN [withProp EXCEPT !.required = Append(@, p.name)]
                        ELSE withProp
    IN [es EXCEPT !.properties = ObjSet(@, schemaProp, withRequired)]

\* mutant: the top-level required list is rebuilt for every body parameter
setBody_ResetsRequired(p, jsonSchema, es) ==
    LET enabledValidation == ~p.disabled
        jsonSchemaDef == IF IdOf(jsonSchema) # NoId
                         THEN [kind |-> "ref", ref |-> IdOf(jsonSchema)]
                         ELSE jsonSchema
    IN [properties |-> ObjSet(es.properties, "body",
                              IF enabledValidation THEN jsonSchemaDef
                              ELSE [kind |-> "true"]),
        required |-> IF enabledValidation /\ p.required THEN <<"body">> ELSE <<>>]

\* the body branch
setBody(p, jsonSchema, es) ==
    LET enabledValidation == ~p.disabled
        jsonSchemaDef == IF IdOf(jsonSchema) # NoId
                         THEN [kind |-> "ref", ref |-> IdOf(jsonSchema)]
                         ELSE jsonSchema
        withBody == [es EXCEPT !.properties =
                        ObjSet(@, "body", IF enabledValidation THEN jsonSchemaDef
                                          ELSE [kind |-> "true"])]
    IN IF enabledValidation /\ p.required
       THEN [withBody EXCEPT !.required = Append(@, "body")]
       ELSE withBody

\* one iteration of the mapSeries callback of createSchema
createSchemaStep(p, es, st) ==
    IF p.source \in SkippedSources THEN [ok |-> TRUE, es |-> es, st |-> st]
    ELSE LET r == lookupOrCreateJsonSchema(p, st) IN
         IF ~r.ok THEN [ok |-> FALSE, es |-> es, st |-> r.st]
         ELSE [ok |-> TRUE,
               st |-> cacheParameterSchema(p, r.frag, r.st),
               es |-> IF p.source \in {"path", "query", "header"}
                      THEN setPartitionProperty(p, r.frag, es)
                      ELSE IF p.source = "body" THEN setBody(p, r.frag, es)
                      ELSE es]

\* ------------------------------------------------- the validation engine
\* Request data: [t |-> "undefined" | "string" | "number" | "object",
\* f |-> the fields of an object, as a property list].
Undefined == [t |-> "undefined", f |-> <<>>]

Str == [t |-> "string", f |-> <<>>]

Num == [t |-> "number", f |-> <<>>]

Obj(fields) == [t |-> "object", f |-> fields]

\* data?.[key]
Field(data, key) ==
    IF data.t = "object" /\ ObjHas(data.f, key) THEN ObjGet(data.f, key)
    ELSE Undefined

\* Paths are token lists: "" is <<>>, "/name" is <<"/", "name">>,
\* "#/properties/name" is <<"#", "/", "properties", "/", "name">>.
AjvError(instancePath, schemaPath, keyword) ==
    [instancePath |-> instancePath, schemaPath |-> schemaPath, keyword |-> keyword]

RECURSIVE Flatten(_)
Flatten(seqs) == IF seqs = <<>> THEN <<>> ELSE Head(seqs) \o Flatten(Tail(seqs))

\* The errors a compiled Ajv predicate leaves in validateFn.errors (empty:
\* the predicate returned true), under the default options: allErrors, and
\* coerceTypes 'array' (number -> string, scalar -> one-element array).
\* A keyword group applies only to data of its type, so data that is not
\* an object gives the single `type` error of an object schema.
RECURSIVE ajvValidate(_, _, _, _, _)
ajvValidate(schema, data, instancePath, schemaPath, ajv) ==
    CASE schema.kind = "true" -> <<>>
      [] schema.kind = "_ref" -> <<>>
      [] schema.kind = "ref" ->
            IF schema.ref = NoId THEN <<>>
            ELSE IF ~AjvHasSchema(ajv, schema.ref)
            THEN <<AjvError(instancePath, schemaPath \o <<"/", "$ref">>, "$ref")>>
            ELSE ajvValidate(ajv[CHOOSE i \in 1..Len(ajv) :
                                    /\ IdOf(ajv[i]) = schema.ref
                                    /\ \A j \in 1..(i - 1) : IdOf(ajv[j]) # schema.ref],
                             data, instancePath, <<schema.ref>>, ajv)
      [] schema.kind = "prim" ->
            IF \/ data.t = schema.type
               \/ (schema.type = "string" /\ data.t = "number")
            THEN <<>>
            ELSE <<AjvError(instancePath, schemaPath \o <<"/", "type">>, "type")>>
      [] schema.kind = "array" ->
            IF data.t \in {"string", "number"}
            THEN ajvValidate(schema.items, data, instancePath \o <<"/", "0">>,
                             schemaPath \o <<"/", "items">>, ajv)
            ELSE <<AjvError(instancePath, schemaPath \o <<"/", "type">>, "type")>>
      [] schema.kind = "object" ->
            IF data.t # "object"
            THEN <<AjvError(instancePath, schemaPath \o <<"/", "type">>, "type")>>
            ELSE LET missing == SelectSeq(schema.required,
                                    LAMBDA n : Field(data, n) = Undefined)
                     present == SelectSeq(schema.properties,
                                    LAMBDA q : Field(data, q.n) # Undefined)
                 IN [i \in 1..Len(missing) |->
                        AjvError(instancePath, schemaPath \o <<"/", "required">>,
                                 "required")]
                    \o Flatten([i \in 1..Len(present) |->
                          ajvValidate(present[i].v, Field(data, present[i].n),
                                      instancePath \o <<"/", present[i].n>>,
                                      schemaPath \o <<"/", "properties", "/", present[i].n>>,
                                      ajv)])

\* ajv.compile(schema) throws when the schema is not valid against the
\* meta-schema: `required` must not hold duplicate items
RECURSIVE HasDuplicates(_)
HasDuplicates(seq) ==
    /\ seq # <<>>
    /\ \/ \E i \in 2..Len(seq) : seq[i] = Head(seq)
       \/ HasDuplicates(Tail(seq))

ajvCompileThrows(schema) == schema.kind = "object" /\ HasDuplicates(schema.required)

\* ------------------------------------------------ createValidatorFunction
\* mutant: the body partition is not compiled
compileValidateFns_NoBody(es) ==
    LET populated == SelectSeq(sources,
                        LAMBDA s : s # "body" /\ ObjHas(es.properties, sourceToSchemaMap[s]))
    IN [i \in 1..Len(populated) |->
            [source |-> populated[i],
             schema |-> ObjGet(es.properties, sourceToSchemaMap[populated[i]])]]

\* mutant: the body partition is compiled only when the body is required
compileValidateFns_BodyIfRequired(es) ==
    LET populated == SelectSeq(sources,
                        LAMBDA s : /\ ObjHas(es.properties, sourceToSchemaMap[s])
                                   /\ s = "body" =>
                                         \E i \in 1..Len(es.required) : es.required[i] = "body")
    IN [i \in 1..Len(populated) |->
            [source |-> populated[i],
             schema |-> ObjGet(es.properties, sourceToSchemaMap[populated[i]])]]

\* sources.reduce(...): one { source, validateFn } per truthy partition
compileValidateFns(es) ==
    LET populated == SelectSeq(sources,
                        LAMBDA s : ObjHas(es.properties, sourceToSchemaMap[s]))
    IN [i \in 1..Len(populated) |->
            [source |-> populated[i],
             schema |-> ObjGet(es.properties, sourceToSchemaMap[populated[i]])]]

\* mutant: the pattern is /^\// only, the root path "" is left as it is
formatAjvError_NoEmptyPath(source, error) ==
    LET rootPath == sourceToSchemaMap[source]
        ip == error.instancePath
        sp == error.schemaPath
    IN [error EXCEPT
          !.instancePath =
              IF ip # <<>> /\ Head(ip) = "/" THEN <<"/", rootPath, "/">> \o Tail(ip)
              ELSE ip,
          !.schemaPath =
              IF Len(sp) >= 4 /\ SubSeq(sp, 1, 4) = <<"#", "/", "properties", "/">>
              THEN <<"#", "/", rootPath, "/", "properties", "/">> \o SubSeq(sp, 5, Len(sp))
              ELSE sp]

formatAjvError(source, error) ==
    LET rootPath == sourceToSchemaMap[source]
        ip == error.instancePath
        sp == error.schemaPath
    IN [error EXCEPT
          !.instancePath =
              IF ip = <<>> THEN <<"/", rootPath>>
              ELSE IF Head(ip) = "/" THEN <<"/", rootPath, "/">> \o Tail(ip)
              ELSE ip,
          !.schemaPath =
              IF Len(sp) >= 4 /\ SubSeq(sp, 1, 4) = <<"#", "/", "properties", "/">>
              THEN <<"#", "/", rootPath, "/", "properties", "/">> \o SubSeq(sp, 5, Len(sp))
              ELSE sp]

\* mutant: the loop stops at the first source whose predicate fails
RECURSIVE runValidateFns_ShortCircuit(_, _, _, _)
runValidateFns_ShortCircuit(fns, data, instances, acc) ==
    IF fns = <<>> \/ acc.errors # <<>> THEN acc
    ELSE LET fn == Head(fns)
             dataPath == Field(data, sourceToSchemaMap[fn.source])
             raw == ajvValidate(fn.schema, dataPath, <<>>, <<"#">>, instances[fn.source])
         IN runValidateFns_ShortCircuit(Tail(fns), data, instances,
                [errors |-> acc.errors \o
                            [i \in 1..Len(raw) |-> formatAjvError(fn.source, raw[i])],
                 origin |-> acc.origin \o [i \in 1..Len(raw) |-> fn.source],
                 ran |-> Append(acc.ran, fn.source)])

\* validateFns.forEach(...) of the returned function: acc holds the errors
\* pushed so far, the source each came from, and the predicates run so far
RECURSIVE runValidateFns(_, _, _, _)
runValidateFns(fns, data, instances, acc) ==
    IF fns = <<>> THEN acc
    ELSE LET fn == Head(fns)
             dataPath == Field(data, sourceToSchemaMap[fn.source])
             raw == ajvValidate(fn.schema, dataPath, <<>>, <<"#">>, instances[fn.source])
         IN runValidateFns(Tail(fns), data, instances,
                [errors |-> acc.errors \o
                            [i \in 1..Len(raw) |-> formatAjvError(fn.source, raw[i])],
                 origin |-> acc.origin \o [i \in 1..Len(raw) |-> fn.source],
                 ran |-> Append(acc.ran, fn.source)])

\* the function createValidatorFunction returns, applied to data
validationFunction(fns, data, instances) ==
    LET acc == runValidateFns(fns, data, instances,
                              [errors |-> <<>>, origin |-> <<>>, ran |-> <<>>])
    IN [status |-> IF Len(acc.errors) > 0 THEN "BadRequest" ELSE "returned",
        errors |-> acc.errors, origin |-> acc.origin, ran |-> acc.ran,
        data |-> data]

NoOutcome ==
    [status |-> "none", errors |-> <<>>, origin |-> <<>>, ran |-> <<>>,
     data |-> Undefined]

\* ------------------------------------------------------------ the inputs
Param(source, name, type, required, disabled) ==
    [source |-> source, name |-> name, type |-> type,
     required |-> required, disabled |-> disabled]

\* <<required, disabled>>
AllFlags == BOOLEAN \X BOOLEAN

\* Parameter configurations of the routes of the schema-building runs
SchemaParams ==
    {Param(s, "ctx", "String", FALSE, FALSE) : s \in SkippedSources}
    \cup {Param("path", "id", "String", f[1], f[2]) :
            f \in {<<TRUE, FALSE>>, <<TRUE, TRUE>>}}
    \cup {Param("header", "token", "String", f[1], f[2]) :
            f \in {<<FALSE, FALSE>>, <<TRUE, TRUE>>}}
    \cup {Param("query", "name", "String", f[1], f[2]) : f \in AllFlags}
    \cup {Param("query", "name", "Phone", FALSE, FALSE)}
    \cup {Param("body", "body", "Phone", f[1], f[2]) : f \in AllFlags}
    \cup {Param("body", "body", t, FALSE, FALSE) : t \in Types \ {"Phone"}}

\* Parameter configurations of the routes of the validation runs
ValidationParams ==
    {Param("context", "ctx", "String", FALSE, FALSE),
     Param("path", "id", "String", TRUE, FALSE),
     Param("header", "token", "String", FALSE, FALSE),
     Param("query", "name", "String", TRUE, FALSE),
     Param("query", "name", "String", TRUE, TRUE),
     Param("query", "name", "Phone", FALSE, FALSE),
     Param("body", "body", "Phone", TRUE, FALSE),
     Param("body", "body", "Phone", FALSE, FALSE),
     Param("body", "body", "Phone", TRUE, TRUE),
     Param("body", "body", "Anon", TRUE, FALSE)}

\* Request data handed to the validation function
PartitionData(part) ==
    CASE part = "params" -> {Undefined, Obj(<<Prop("id", Str)>>)}
      [] part = "headers" -> {Obj(<<>>), Obj(<<Prop("token", Obj(<<>>))>>)}
      [] part = "querystring" ->
            {Obj(<<>>), Obj(<<Prop("name", Str)>>),
             Obj(<<Prop("name", Obj(<<Prop("number", Str)>>))>>)}
      [] part = "body" ->
            {Undefined, Obj(<<Prop("number", Num)>>), Obj(<<Prop("number", Str)>>)}

RequestData ==
    {Undefined}
    \cup {Obj(<<Prop("params", a), Prop("headers", b),
                Prop("querystring", c), Prop("body", d)>>) :
            a \in PartitionData("params"), b \in PartitionData("headers"),
            c \in PartitionData("querystring"), d \in PartitionData("body")}

\* ----------------------------------------------------------- the machine
\* no resolvers built yet
NoResolvers == <<>>

\* no controller method called yet
NoCall == [methodName |-> NoId]

\* a new AjvValidator about to compile a route and then the same route with
\* the required flag of its body parameter inverted
NoTwin ==
    [pc |-> "mapSeries", route |-> <<>>,
     st |-> [map |-> <<>>, ajv |-> [s \in Sources |-> <<>>], oid |-> 1],
     a |-> [es |-> EmptyEndpointSchema, fns |-> <<>>, outcome |-> NoOutcome],
     b |-> [es |-> EmptyEndpointSchema, fns |-> <<>>, outcome |-> NoOutcome]]

\* no database operation invoked yet
NoInvocation ==
    [phase |-> "idle", hook |-> NoId, skipOptions |-> FALSE, skipSave |-> FALSE,
     afterSkipped |-> FALSE, pending |-> <<>>, wrapper |-> "none", calls |-> <<>>]

Init ==
    /\ argsMetadata = <<>>
    /\ resolvers = NoResolvers
    /\ handlerCall = NoCall
    /\ mongooseSchema = <<>>
    /\ invocation = NoInvocation
    /\ twin = NoTwin
    /\ jsonSchemasMap = <<>>
    /\ ajvInstances = [s \in Sources |-> <<>>]
    /\ nextOid = 1
    /\ pc = "idle"
    /\ endpointSchema = EmptyEndpointSchema
    /\ processed = <<>>
    /\ validateFns = <<>>
    /\ steps = 0
    /\ outcome = NoOutcome

\* createValidatorFunction(route) is called: createSchema starts with an
\* empty endpointSchema
Begin ==
    /\ pc \in {"idle", "ready", "rangeError", "compileError"}
    /\ steps < MaxSteps
    /\ pc' = "mapSeries"
    /\ endpointSchema' = EmptyEndpointSchema
    /\ processed' = <<>>
    /\ validateFns' = <<>>
    /\ outcome' = NoOutcome
    /\ UNCHANGED <<jsonSchemasMap, ajvInstances, nextOid, steps>>
    /\ UNCHANGED <<resolverVars, hookVars, twin>>

\* mapSeries runs the callback on the next parameterConfig of the route; a
\* RangeError from the synthesis rejects createSchema
Step(params) ==
    /\ pc = "mapSeries"
    /\ steps < MaxSteps
    /\ \E p \in params :
         LET r == createSchemaStep(p, endpointSchema,
                     [map |-> jsonSchemasMap, ajv |-> ajvInstances, oid |-> nextOid])
         IN /\ jsonSchemasMap' = r.st.map
            /\ ajvInstances' = r.st.ajv
            /\ nextOid' = r.st.oid
            /\ endpointSchema' = r.es
            /\ processed' = Append(processed, p)
            /\ pc' = IF r.ok THEN "mapSeries" ELSE "rangeError"
    /\ steps' = steps + 1
    /\ UNCHANGED <<validateFns, outcome>>
    /\ UNCHANGED <<resolverVars, hookVars, twin>>

\* createSchema returns the endpointSchema and createValidatorFunction
\* compiles one predicate per populated partition
Finish ==
    /\ pc = "mapSeries"
    /\ LET fns == compileValidateFns(endpointSchema) IN
       IF \E i \in 1..Len(fns) : ajvCompileThrows(fns[i].schema)
       THEN pc' = "compileError" /\ validateFns' = <<>>
       ELSE pc' = "ready" /\ validateFns' = fns
    /\ UNCHANGED <<jsonSchemasMap, ajvInstances, nextOid, endpointSchema,
                   processed, steps, outcome>>
    /\ UNCHANGED <<resolverVars, hookVars, twin>>

\* The validation function of the last route is invoked on request data.
\* The function keeps nothing between invocations (errors is a local of the
\* call), so one invocation per compiled function stands for all of them.
Validate ==
    /\ pc = "ready"
    /\ outcome.status = "none"
    /\ \E data \in RequestData :
         outcome' = validationFunction(validateFns, data, ajvInstances)
    /\ UNCHANGED <<jsonSchemasMap, ajvInstances, nextOid, pc, endpointSchema,
                   processed, validateFns, steps>>
    /\ UNCHANGED <<resolverVars, hookVars, twin>>

StepSchema == Step(SchemaParams)

StepValidation == Step(ValidationParams)

Next == Begin \/ StepSchema \/ Finish

Spec == Init /\ [][Next]_vars

NextValidation == Begin \/ StepValidation \/ Finish \/ Validate

SpecValidation == Init /\ [][NextValidation]_vars

\* ------------------------------------------------- graphql: the decorators
\* the controller's methods; getById is the widest, find takes one parameter
Methods == {"getById", "find"}

Arity(methodName) == IF methodName = "getById" THEN MaxArity ELSE 1

ArgNames == {"name", "id"}

\* _.find(methodParameters, { methodName, index })
isAlreadySet(methodParameters, methodName, index) ==
    \E i \in 1..Len(methodParameters) :
        /\ methodParameters[i].methodName = methodName
        /\ methodParameters[i].index = index

\* methodParameters.unshift(entry)
unshift(methodParameters, entry) == <<entry>> \o methodParameters

\* @arg(name) on parameter `index` of `methodName`; decorators run when the
\* class is defined, before the resolvers are built
arg(name, methodName, index) ==
    /\ resolvers = NoResolvers
    /\ ~isAlreadySet(argsMetadata, methodName, index)
    /\ argsMetadata' = unshift(argsMetadata,
           [methodName |-> methodName, index |-> index, name |-> name,
            type |-> "String"])
    /\ UNCHANGED <<resolvers, handlerCall, validatorVars, hookVars, twin>>

\* @context() on parameter `index` of `methodName`: the entry carries the
\* type 'context' and no name
context(methodName, index) ==
    /\ resolvers = NoResolvers
    /\ ~isAlreadySet(argsMetadata, methodName, index)
    /\ argsMetadata' = unshift(argsMetadata,
           [methodName |-> methodName, index |-> index, name |-> NoId,
            type |-> "context"])
    /\ UNCHANGED <<resolvers, handlerCall, validatorVars, hookVars, twin>>

\* --------------------------------------- graphql: createResolversAndSchemas
\* the 'tsgraphql:queries' metadata: both methods are queries, unnamed
resolversMetadata ==
    <<[methodName |-> "find", name |-> NoId],
      [methodName |-> "getById", name |-> NoId]>>

RECURSIVE sortByIndexFrom(_, _)
\* _fp.sortBy('index'): a stable sort on the index, smallest first
sortByIndexFrom(entries, index) ==
    IF index >= MaxArity THEN <<>>
    ELSE SelectSeq(entries, LAMBDA e : e.index = index)
         \o sortByIndexFrom(entries, index + 1)

\* the mutant: the metadata taken in the order the decorators left it
controllerArgs_Unsorted(metadata) == metadata

\* _fp.flow(_fp.sortBy('index'), _fp.compact): the entries are objects, so
\* compact drops none of them
controllerArgs(metadata) == sortByIndexFrom(metadata, 0)

\* _.filter(controllerArgs, { methodName })
resolverArgsMetadata(metadata, methodName) ==
    SelectSeq(controllerArgs(metadata), LAMBDA e : e.methodName = methodName)

\* the reduce over resolverArgsMetadata: a context parameter is pushed to
\* handlerArgsDefinition only, any other also becomes a key of resolverArgs
reduceArgs(entries) ==
    [resolverArgs |->
        {entries[i].name : i \in {j \in 1..Len(entries) : entries[j].type # "context"}},
     handlerArgsDefinition |->
        [i \in 1..Len(entries) |->
            [name |-> entries[i].name, isContext |-> entries[i].type = "context"]]]

\* acc[name || methodName] for every query of the metadata
createResolversAndSchemas(metadata) ==
    [methodName \in {resolversMetadata[i].methodName : i \in 1..Len(resolversMetadata)} |->
        LET r == reduceArgs(resolverArgsMetadata(metadata, methodName))
        IN [args |-> r.resolverArgs,
            handlerArgsDefinition |-> r.handlerArgsDefinition]]

\* the GraphQL args a field is resolved with: undefined, or a map from some
\* of the names to values
GraphqlArgs ==
    {[defined |-> FALSE, map |-> <<>>]} \cup
    {[defined |-> TRUE, map |-> f] :
        f \in UNION {[S -> {"x", "y"}] : S \in SUBSET ArgNames}}

\* (args || {})[name]
argOf(args, name) ==
    IF args.defined /\ name \in DOMAIN args.map THEN args.map[name] ELSE NoId

\* handlerArgsDefinition.map(...) of resolve(_, args, context)
handlerArgs(handlerArgsDefinition, args, ctx) ==
    [i \in 1..Len(handlerArgsDefinition) |->
        IF handlerArgsDefinition[i].isContext THEN ctx
        ELSE argOf(args, handlerArgsDefinition[i].name)]

\* createResolversAndSchemas(Controller, 'queries') is called
BuildResolvers ==
    /\ resolvers = NoResolvers
    /\ resolvers' = createResolversAndSchemas(argsMetadata)
    /\ UNCHANGED <<argsMetadata, handlerCall, validatorVars, hookVars, twin>>

\* the GraphQL engine resolves a field: controller[methodName](...handlerArgs)
resolve(methodName, args, ctx) ==
    /\ resolvers # NoResolvers
    /\ handlerCall' =
           [methodName |-> methodName, args |-> args, context |-> ctx,
            handlerArgs |-> handlerArgs(resolvers[methodName].handlerArgsDefinition,
                                        args, ctx)]
    /\ UNCHANGED <<argsMetadata, resolvers, validatorVars, hookVars, twin>>

ArgDecorator ==
    \E name \in ArgNames, methodName \in Methods :
        \E index \in 0..(Arity(methodName) - 1) : arg(name, methodName, index)

ContextDecorator ==
    \E methodName \in Methods :
        \E index \in 0..(Arity(methodName) - 1) : context(methodName, index)

Resolve ==
    \E methodName \in Methods, args \in GraphqlArgs : resolve(methodName, args, "ctx")

NextResolver == ArgDecorator \/ ContextDecorator \/ BuildResolvers \/ Resolve

SpecResolver == Init /\ [][NextResolver]_vars

\* ================================================================ claims
\* the createSchema call in flight (or the last one) has not thrown
Built == pc \in {"mapSeries", "ready", "compileError"}

\* the parameters gone through so far that declare source s
ParamsOf(s) == SelectSeq(processed, LAMBDA p : p.source = s)

HasPartition(es, s) == ObjHas(es.properties, sourceToSchemaMap[s])

Partition(es, s) == ObjGet(es.properties, sourceToSchemaMap[s])

IsPrefix(a, b) == Len(a) <= Len(b) /\ SubSeq(b, 1, Len(a)) = a

Names(params) == [i \in 1..Len(params) |-> params[i].name]

EnabledRequired(params) ==
    SelectSeq(params, LAMBDA p : ~p.disabled /\ p.required)

\* the last parameter of params named n decides the property n
IsLastNamed(params, i) ==
    \A j \in (i + 1)..Len(params) : params[j].name # params[i].name

\* C4: a parameter is in its partition's required list (for body: `body` in
\* the top-level required list) if and only if its validation is enabled
\* and it is marked required; a parameter whose validation is disabled has
\* the schema `true` and is never required.
C4_RequiredIffEnabledAndRequired ==
    Built =>
      /\ \A s \in {"path", "query", "header"} :
            HasPartition(endpointSchema, s) =>
              LET part == Partition(endpointSchema, s)
                  ps == ParamsOf(s)
              IN /\ part.required = Names(EnabledRequired(ps))
                 /\ \A i \in 1..Len(ps) :
                       IsLastNamed(ps, i) =>
                         (ps[i].disabled <=>
                            ObjGet(part.properties, ps[i].name) = [kind |-> "true"])
      /\ LET bs == ParamsOf("body") IN
         /\ endpointSchema.required =
               [i \in 1..Len(EnabledRequired(bs)) |-> "body"]
         /\ bs # <<>> =>
               (bs[Len(bs)].disabled <=>
                  ObjGet(endpointSchema.properties, "body") = [kind |-> "true"])

C4_Witness ==
    /\ pc = "ready"
    /\ \E i, j \in 1..Len(processed) :
          /\ processed[i].source = "query"
          /\ processed[i].required /\ processed[i].disabled
          /\ processed[j].source = "body"
          /\ processed[j].required /\ ~processed[j].disabled
    /\ HasPartition(endpointSchema, "query")
    /\ Partition(endpointSchema, "query").required = <<>>
    /\ endpointSchema.required = <<"body">>

\* C10: after every iteration of createSchema a partition exists if and only
\* if a parameter gone through declares its source; an iteration on a
\* context, request or response parameter changes neither the endpoint
\* schema nor the cache nor the engines; and every required list of the
\* schema under construction is extended, never shortened.
C10_PartitionsFollowSources ==
    [][(pc = "mapSeries" /\ processed' # processed) =>
         LET p == processed'[Len(processed')] IN
         /\ p.source \in SkippedSources =>
               UNCHANGED <<endpointSchema, jsonSchemasMap, ajvInstances, nextOid>>
         /\ pc' = "mapSeries" =>
               /\ IsPrefix(endpointSchema.required, endpointSchema'.required)
               /\ \A s \in Sources :
                     /\ HasPartition(endpointSchema, s) =>
                           /\ HasPartition(endpointSchema', s)
                           /\ s # "body" =>
                                 IsPrefix(Partition(endpointSchema, s).required,
                                          Partition(endpointSchema', s).required)
                     /\ HasPartition(endpointSchema', s) <=>
                           \E i \in 1..Len(processed') : processed'[i].source = s
    ]_vars

C10_Witness ==
    /\ pc = "ready"
    /\ Len(processed) = 2
    /\ processed[1].source = "query" /\ processed[1].required /\ ~processed[1].disabled
    /\ processed[2].source \in SkippedSources
    /\ Len(endpointSchema.properties) = 1
    /\ Partition(endpointSchema, "query").required = <<"name">>

\* --------------------------------------------- fragments and references
RefsOf(d) ==
    UNION {RefTarget(DeclaredProperties(d)[i].v) : i \in 1..Len(DeclaredProperties(d))}

RECURSIVE ReachFrom(_, _)
ReachFrom(S, n) ==
    IF n = 0 THEN S ELSE ReachFrom(S \cup UNION {RefsOf(d) : d \in S}, n - 1)

\* the entities reached from d through one or more references
ReachPlus(d) == ReachFrom(RefsOf(d), Cardinality(Defs))

\* the types whose synthesis runs into a cycle through an untitled entity
UntitledCycleTypes ==
    {t \in Defs : \E e \in {t} \cup ReachPlus(t) :
                     TitleOf(e) = NoId /\ e \in ReachPlus(e)}

CachedFragments == {jsonSchemasMap[k] : k \in DOMAIN jsonSchemasMap}

EngineFragments ==
    UNION {{ajvInstances[s][i] : i \in 1..Len(ajvInstances[s])} : s \in Sources}

\* the schema nodes createSchema has put into the endpoint schema
EndpointNodes ==
    UNION {IF endpointSchema.properties[i].n = "body"
           THEN {endpointSchema.properties[i].v}
           ELSE {endpointSchema.properties[i].v.properties[j].v :
                    j \in 1..Len(endpointSchema.properties[i].v.properties)}
           : i \in 1..Len(endpointSchema.properties)}

AllFragments ==
    {n \in CachedFragments \cup EngineFragments \cup EndpointNodes : n.kind = "object"}

\* the ids a schema node points to with $ref
Pointers(v) ==
    IF v.kind = "ref" THEN {v.ref}
    ELSE IF v.kind = "array" /\ v.items.kind = "ref" THEN {v.items.ref}
    ELSE {}

ReferencedIds ==
    UNION {Pointers(n) : n \in EndpointNodes}
    \cup UNION {UNION {Pointers(f.properties[i].v) : i \in 1..Len(f.properties)}
                : f \in AllFragments}

\* f is a fragment synthesized for entity d
IsFragmentOf(f, d) ==
    /\ f.title = TitleOf(d)
    /\ Len(f.properties) = Len(DeclaredProperties(d))
    /\ \A i \in 1..Len(f.properties) : f.properties[i].n = DeclaredProperties(d)[i].n

Definitions(ajv, id) == {i \in 1..Len(ajv) : IdOf(ajv[i]) = id}

\* C5: a createSchema iteration on a parameter whose type is a titled
\* entity already in the cache is a cache hit: it builds no fragment object
\* and the schema it puts into the partition is the cached fragment itself.
C5_SecondSynthesisIsCacheHit ==
    [][(pc = "mapSeries" /\ pc' = "mapSeries" /\ processed' # processed) =>
         LET p == processed'[Len(processed')] IN
         (/\ p.source \notin SkippedSources
          /\ p.type \in Defs
          /\ TitleOf(p.type) # NoId
          /\ MapHas(jsonSchemasMap, DefKey(p.type))) =>
            /\ nextOid' = nextOid
            /\ (p.source # "body" /\ ~p.disabled) =>
                  ObjGet(Partition(endpointSchema', p.source).properties, p.name)
                     = jsonSchemasMap[DefKey(p.type)]
    ]_vars

\* C6: in every fragment (cached, registered in an engine or put into an
\* endpoint schema) a property declared as a reference to a titled entity,
\* single or array item, holds { $ref: <title> }, and every engine holds
\* exactly one definition under each id that is referenced, never two under
\* any id.
C6_TitledReferencesAreRefs ==
    /\ \A f \in AllFragments : \A d \in Defs :
          IsFragmentOf(f, d) =>
            \A i \in 1..Len(f.properties) :
               LET decl == DeclaredProperties(d)[i].v IN
               \A e \in RefTarget(decl) :
                  TitleOf(e) # NoId =>
                    f.properties[i].v =
                       IF decl.kind = "_ref" THEN [kind |-> "ref", ref |-> TitleOf(e)]
                       ELSE ArrayOf([kind |-> "ref", ref |-> TitleOf(e)])
    /\ \A s \in Sources :
          /\ \A id \in ReferencedIds \ {NoId} :
                Cardinality(Definitions(ajvInstances[s], id)) = 1
          /\ \A i \in 1..Len(ajvInstances[s]) :
                Cardinality(Definitions(ajvInstances[s], IdOf(ajvInstances[s][i]))) = 1

C6_Witness ==
    /\ MapHas(jsonSchemasMap, DefKey("Customer"))
    /\ MapHas(jsonSchemasMap, DefKey("Account"))
    /\ jsonSchemasMap[DefKey("Customer")].properties[2].v
          = ArrayOf([kind |-> "ref", ref |-> "Phone"])
    /\ jsonSchemasMap[DefKey("Account")].properties[1].v
          = [kind |-> "ref", ref |-> "Phone"]
    /\ \A s \in Sources : Cardinality(Definitions(ajvInstances[s], "Phone")) = 1

\* C7: the fragments cached for two distinct entity classes never carry the
\* same $id, and in every engine the definition registered under the $id
\* of a cached fragment is that fragment.
C7_DistinctClassesDistinctIds ==
    \A d1 \in Defs :
       MapHas(jsonSchemasMap, DefKey(d1)) /\ IdOf(jsonSchemasMap[DefKey(d1)]) # NoId =>
         /\ \A d2 \in Defs \ {d1} :
               MapHas(jsonSchemasMap, DefKey(d2)) =>
                  IdOf(jsonSchemasMap[DefKey(d2)]) # IdOf(jsonSchemasMap[DefKey(d1)])
         /\ \A s \in Sources : \A i \in 1..Len(ajvInstances[s]) :
               IdOf(ajvInstances[s][i]) = IdOf(jsonSchemasMap[DefKey(d1)]) =>
                  ajvInstances[s][i] = jsonSchemasMap[DefKey(d1)]

\* C8: createSchema throws out of the synthesis recursion only for a type
\* whose references run into a cycle through an untitled entity; cycles of
\* titled entities are synthesized and createSchema returns.
C8_TitledCyclesTerminate ==
    pc = "rangeError" => processed[Len(processed)].type \in UntitledCycleTypes

\* C9: an untitled entity is inlined wherever it is used: as an enabled body
\* parameter the body partition is its full schema without $id, inside
\* another entity the referring property is not a $ref pointer, and no
\* engine holds a definition without $id.
C9_UntitledAlwaysInlined ==
    /\ (Built /\ ParamsOf("body") # <<>>) =>
          LET b == ParamsOf("body")[Len(ParamsOf("body"))] IN
          (b.type \in Defs /\ TitleOf(b.type) = NoId /\ ~b.disabled) =>
             /\ ObjGet(endpointSchema.properties, "body").kind = "object"
             /\ ObjGet(endpointSchema.properties, "body").id = NoId
    /\ \A f \in AllFragments : \A d \in Defs :
          IsFragmentOf(f, d) =>
            \A i \in 1..Len(f.properties) :
               \A e \in RefTarget(DeclaredProperties(d)[i].v) :
                  TitleOf(e) = NoId => Pointers(f.properties[i].v) = {}
    /\ \A f \in EngineFragments : IdOf(f) # NoId

\* --------------------------------------------------- validation outcomes
\* the sources whose partition the endpoint schema holds, in `sources` order
Populated == SelectSeq(sources, LAMBDA s : HasPartition(endpointSchema, s))

\* the raw errors of the predicate of source s on the data of the outcome
SourceErrors(s) ==
    ajvValidate(Partition(endpointSchema, s),
                Field(outcome.data, sourceToSchemaMap[s]),
                <<>>, <<"#">>, ajvInstances[s])

\* the positions of the aggregated error list that hold errors of source s
EntriesOf(s) == {i \in 1..Len(outcome.origin) : outcome.origin[i] = s}

\* C1: an invocation runs the predicate of every populated partition, in
\* the order of `sources`; the aggregated list holds the errors of every
\* failing source; it throws (once, with that list) if a source fails and
\* returns normally if and only if every source passed.
C1_AllSourcesCheckedAndAggregated ==
    outcome.status # "none" =>
      /\ outcome.ran = Populated
      /\ Len(outcome.errors) = Len(outcome.origin)
      /\ \A s \in Sources :
            Cardinality(EntriesOf(s)) =
               IF HasPartition(endpointSchema, s) THEN Len(SourceErrors(s)) ELSE 0
      /\ outcome.status = "returned" <=>
            \A i \in 1..Len(Populated) : SourceErrors(Populated[i]) = <<>>
      /\ outcome.status = "BadRequest" <=>
            \E i \in 1..Len(Populated) : SourceErrors(Populated[i]) # <<>>
      /\ outcome.status = "BadRequest" <=> outcome.errors # <<>>

C1_Witness ==
    /\ outcome.status = "BadRequest"
    /\ EntriesOf("query") # {}
    /\ EntriesOf("body") # {}
    /\ Len(outcome.errors) >= 2
    /\ outcome.ran = <<"query", "body">>

\* C2: every entry of the aggregated list reports the path the engine gave
\* it, prefixed with "/" and the partition name of the source it came from:
\* "/name" of querystring reads "/querystring/name", "" of body "/body".
C2_PathsPrefixedWithPartition ==
    \A i \in 1..Len(outcome.errors) :
       LET s == outcome.origin[i]
           raw == SourceErrors(s)
       IN /\ Len(outcome.errors[i].instancePath) >= 2
          /\ SubSeq(outcome.errors[i].instancePath, 1, 2) = <<"/", sourceToSchemaMap[s]>>
          /\ \E k \in 1..Len(raw) :
                /\ outcome.errors[i].instancePath =
                      <<"/", sourceToSchemaMap[s]>> \o raw[k].instancePath
                /\ outcome.errors[i].keyword = raw[k].keyword

C2_Witness ==
    /\ \E i \in 1..Len(outcome.errors) :
          /\ outcome.origin[i] = "query"
          /\ outcome.errors[i].instancePath = <<"/", "querystring", "/", "name">>
    /\ \E j \in 1..Len(outcome.errors) :
          /\ outcome.origin[j] = "body"
          /\ outcome.errors[j].instancePath = <<"/", "body">>

\* the body parameter that decides the body partition is required and its
\* validation is enabled, and the request of the outcome has no body
RequiredBodyAbsent ==
    /\ outcome.status # "none"
    /\ ParamsOf("body") # <<>>
    /\ LET b == ParamsOf("body")[Len(ParamsOf("body"))] IN b.required /\ ~b.disabled
    /\ Field(outcome.data, "body") = Undefined

\* C3: for a required, validation-enabled body parameter a request without
\* body is rejected with exactly one entry for the body, whose path is
\* "/body"; it is the only entry when the other partitions pass.
C3_AbsentBodyOneError ==
    RequiredBodyAbsent =>
      /\ outcome.status = "BadRequest"
      /\ Cardinality(EntriesOf("body")) = 1
      /\ \A i \in EntriesOf("body") :
            outcome.errors[i].instancePath = <<"/", "body">>
      /\ (\A s \in Sources \ {"body"} :
             HasPartition(endpointSchema, s) => SourceErrors(s) = <<>>)
           => Len(outcome.errors) = 1

C3_Witness ==
    /\ RequiredBodyAbsent
    /\ Len(outcome.errors) = 1
    /\ outcome.errors[1].instancePath = <<"/", "body">>
    /\ Len(processed) = 2

\* ------------------------------------------------- mongoose: hook lists
READ_HOOKS ==
    <<"countDocuments", "find", "findOne", "findOneAndUpdate", "update",
      "updateMany", "updateOne">>

WRITE_HOOKS == <<"findOneAndUpdate", "save", "update", "updateMany", "updateOne">>

\* the mutant: an update operation also listed as a delete
DELETE_HOOKS_WithUpdate ==
    <<"deleteMany", "deleteOne", "remove", "findOneAndDelete", "findOneAndRemove",
      "updateOne">>

DELETE_HOOKS ==
    <<"deleteMany", "deleteOne", "remove", "findOneAndDelete", "findOneAndRemove">>

\* the three lists a registration function may be created with
HookLists == {"READ_HOOKS", "WRITE_HOOKS", "DELETE_HOOKS"}

hooksListOf(list) ==
    CASE list = "READ_HOOKS" -> READ_HOOKS
      [] list = "WRITE_HOOKS" -> WRITE_HOOKS
      [] list = "DELETE_HOOKS" -> DELETE_HOOKS

SeqToSet(seq) == {seq[i] : i \in 1..Len(seq)}

\* type Hook: every operation name of the three lists
Hook == SeqToSet(READ_HOOKS) \cup SeqToSet(WRITE_HOOKS) \cup SeqToSet(DELETE_HOOKS)

\* ['findOneAndUpdate', 'update', 'updateMany', 'updateOne']
UpdateHooks == {"findOneAndUpdate", "update", "updateMany", "updateOne"}

\* --------------------------------------------- mongoose: createHandlerArgs
\* (isReadHook && 'read') || (isWriteHook && 'write') || (isDeleteHook && 'delete')
operationOf(list) ==
    IF list = "READ_HOOKS" THEN "read"
    ELSE IF list = "WRITE_HOOKS" THEN "write"
    ELSE IF list = "DELETE_HOOKS" THEN "delete"
    ELSE "false"

\* argsSwitch: per operation name and stage, the categories that have an
\* argument factory, each with the factory it names
argsSwitch(hookName, stage) ==
    CASE hookName = "countDocuments" ->
           IF stage = "pre" THEN <<Prop("read", "createPreArgs")>>
           ELSE <<Prop("read", "countArgs")>>
      [] hookName \in {"find", "findOne"} ->
           IF stage = "pre" THEN <<Prop("read", "createPreArgs")>>
           ELSE <<Prop("read", "createAfterArgs")>>
      [] hookName = "findOneAndUpdate" ->
           IF stage = "pre"
           THEN <<Prop("read", "createPreArgs"), Prop("write", "createPreArgs")>>
           ELSE <<Prop("read", "createAfterArgs"), Prop("write", "createAfterArgs")>>
      [] hookName \in {"update", "updateMany", "updateOne"} ->
           IF stage = "pre"
           THEN <<Prop("read", "createPreArgs"), Prop("write", "createPreArgs")>>
           ELSE <<Prop("write", "createAfterRawResultArgs")>>
      [] hookName \in {"findOneAndDelete", "findOneAndRemove"} ->
           IF stage = "pre" THEN <<Prop("delete", "createPreArgs")>>
           ELSE <<Prop("delete", "createAfterArgs")>>
      [] hookName \in {"deleteOne", "deleteMany"} ->
           IF stage = "pre" THEN <<Prop("delete", "createPreArgs")>>
           ELSE <<Prop("delete", "createAfterRawResultArgs")>>
      [] hookName = "remove" ->
           IF stage = "pre" THEN <<Prop("delete", "createDocumentPreArgs")>>
           ELSE <<Prop("delete", "createDocumentPostArgs")>>
      [] hookName = "save" ->
           IF stage = "pre" THEN <<Prop("write", "createDocumentPreArgs")>>
           ELSE <<Prop("write", "createDocumentPostArgs")>>
      [] OTHER -> <<>>

\* argsSwitch?.[hookName]?.[stage]?.[operation]?.(): the arguments built by
\* the factory of the entry, undefined when the table has no such entry
createHandlerArgs(stage, hookName, list) ==
    LET entries == argsSwitch(hookName, stage)
        operation == operationOf(list)
    IN IF ObjHas(entries, operation)
       THEN [factory |-> ObjGet(entries, operation), hookName |-> hookName]
       ELSE [factory |-> NoId, hookName |-> hookName]

\* ------------------------------------------- mongoose: createRegisterHooks
hasContextInOptions(list, hook) ==
    list = "READ_HOOKS" \/ list = "DELETE_HOOKS" \/ hook \in UpdateHooks

hasContextInSaveOptions(list, hook) ==
    list = "WRITE_HOOKS" /\ hook \notin UpdateHooks

\* hooksList.forEach(hook => mongooseSchema[stage](hook, hookHandlerWrapper)):
\* one wrapper per operation name of the list, closing over the handler
createRegisterHooks(list, stage, schema, handler) ==
    schema \o [i \in 1..Len(hooksListOf(list)) |->
                 [stage |-> stage, hook |-> hooksListOf(list)[i], list |-> list,
                  handler |-> handler]]

\* the handlers registered so far
Handlers(schema) == {schema[i].handler : i \in 1..Len(schema)}

\* the mutant: the handler is called and not awaited
hookHandlerWrapper_NoAwait(w, inv) ==
    IF \/ hasContextInOptions(w.list, w.hook) /\ inv.skipOptions
       \/ hasContextInSaveOptions(w.list, w.hook) /\ inv.skipSave
    THEN inv
    ELSE LET args == createHandlerArgs(w.stage, w.hook, w.list) IN
         IF args.factory = NoId THEN inv
         ELSE [inv EXCEPT !.calls = Append(@,
                  [handler |-> w.handler, stage |-> w.stage,
                   operation |-> operationOf(w.list), args |-> args,
                   state |-> "pending"])]

\* hookHandlerWrapper up to its first suspension: it returns at once on the
\* skip flag of the options its operation carries and when no arguments were
\* built, otherwise it calls the handler and awaits it
hookHandlerWrapper(w, inv) ==
    IF \/ hasContextInOptions(w.list, w.hook) /\ inv.skipOptions
       \/ hasContextInSaveOptions(w.list, w.hook) /\ inv.skipSave
    THEN inv
    ELSE LET args == createHandlerArgs(w.stage, w.hook, w.list) IN
         IF args.factory = NoId THEN inv
         ELSE [inv EXCEPT !.calls = Append(@,
                  [handler |-> w.handler, stage |-> w.stage,
                   operation |-> operationOf(w.list), args |-> args,
                   state |-> "pending"]),
                          !.wrapper = "awaiting"]

\* the wrappers mongoose runs for an operation at a stage, in the order of
\* their registration
MiddlewareOf(schema, stage, hook) ==
    SelectSeq(schema, LAMBDA w : w.stage = stage /\ w.hook = hook)

\* one of the six registration functions is called with a new handler;
\* middleware is registered before the model runs operations
Register(list, stage) ==
    /\ invocation = NoInvocation
    /\ Cardinality(Handlers(mongooseSchema)) < MaxHandlers
    /\ mongooseSchema' = createRegisterHooks(list, stage, mongooseSchema,
                             Cardinality(Handlers(mongooseSchema)) + 1)
    /\ UNCHANGED <<invocation, validatorVars, resolverVars, twin>>

beforeRead == Register("READ_HOOKS", "pre")

afterRead == Register("READ_HOOKS", "post")

beforeWrite == Register("WRITE_HOOKS", "pre")

afterWrite == Register("WRITE_HOOKS", "post")

beforeDelete == Register("DELETE_HOOKS", "pre")

afterDelete == Register("DELETE_HOOKS", "post")

\* a query or document operation is invoked, with or without skipHooks in
\* its options and in its saveOptions: mongoose starts its pre middleware
StartOperation ==
    /\ invocation.phase \in {"idle", "complete", "failed"}
    /\ \E hook \in Hook, skipOptions \in BOOLEAN, skipSave \in BOOLEAN :
         invocation' =
            [phase |-> "pre", hook |-> hook, skipOptions |-> skipOptions,
             skipSave |-> skipSave,
             afterSkipped |-> /\ invocation.hook = hook
                              /\ IF hook = "save" THEN invocation.skipSave
                                 ELSE invocation.skipOptions,
             pending |-> MiddlewareOf(mongooseSchema, "pre", hook),
             wrapper |-> "none", calls |-> <<>>]
    /\ UNCHANGED <<mongooseSchema, validatorVars, resolverVars, twin>>

\* mongoose calls the next wrapper of the stage
CallWrapper ==
    /\ invocation.phase \in {"pre", "post"}
    /\ invocation.wrapper = "none"
    /\ invocation.pending # <<>>
    /\ invocation' = hookHandlerWrapper(Head(invocation.pending),
                         [invocation EXCEPT !.pending = Tail(@)])
    /\ UNCHANGED <<mongooseSchema, validatorVars, resolverVars, twin>>

\* the promise of a called handler settles; the wrapper awaiting it resumes
\* and returns, or throws the rejection, which fails the operation
HandlerSettles(state) ==
    /\ \E i \in 1..Len(invocation.calls) :
         /\ invocation.calls[i].state = "pending"
         /\ invocation' =
              [invocation EXCEPT
                 !.calls[i].state = state,
                 !.wrapper = IF @ = "awaiting" /\ i = Len(invocation.calls)
                             THEN "none" ELSE @,
                 !.phase = IF /\ invocation.wrapper = "awaiting"
                              /\ i = Len(invocation.calls)
                              /\ state = "rejected"
                           THEN "failed" ELSE @]
    /\ UNCHANGED <<mongooseSchema, validatorVars, resolverVars, twin>>

HandlerResolves == HandlerSettles("resolved")

HandlerRejects == HandlerSettles("rejected")

\* every wrapper of the stage has returned: after the pre stage the
\* operation runs and its post middleware starts, after the post stage the
\* operation is reported complete
Proceed ==
    /\ invocation.phase \in {"pre", "post"}
    /\ invocation.wrapper = "none"
    /\ invocation.pending = <<>>
    /\ invocation' =
         IF invocation.phase = "pre"
         THEN [invocation EXCEPT
                 !.phase = "post",
                 !.pending = MiddlewareOf(mongooseSchema, "post", invocation.hook)]
         ELSE [invocation EXCEPT !.phase = "complete"]
    /\ UNCHANGED <<mongooseSchema, validatorVars, resolverVars, twin>>

NextHooks ==
    \/ beforeRead \/ afterRead \/ beforeWrite \/ afterWrite
    \/ beforeDelete \/ afterDelete
    \/ StartOperation \/ CallWrapper \/ HandlerResolves \/ HandlerRejects
    \/ Proceed

SpecHooks == Init /\ [][NextHooks]_vars

\* ------------------------------------------------------ graphql resolvers
\* the decorated parameters of a method
DecoratedOf(methodName) ==
    {argsMetadata[i] : i \in {j \in 1..Len(argsMetadata) :
                                 argsMetadata[j].methodName = methodName}}

\* the place of a decorated parameter among the decorated parameters of its
\* method, in declared order
RankOf(e) ==
    1 + Cardinality({f \in DecoratedOf(e.methodName) : f.index < e.index})

\* the value a decorated parameter is bound to in a resolver call
BoundValue(e, call) ==
    IF e.type = "context" THEN call.context ELSE argOf(call.args, e.name)

\* every parameter of the method is decorated
FullyDecorated(methodName) ==
    {e.index : e \in DecoratedOf(methodName)} = 0..(Arity(methodName) - 1)

\* C11: a resolver calls its controller method with one value per decorated
\* parameter, in declared index order whatever the decoration order: the
\* request context for a context parameter, args[name] for any other; only
\* the latter are keys of the resolver's GraphQL args; when every parameter
\* is decorated the value of parameter i is the call's argument i
C11_ResolverMarshalsByIndex ==
    handlerCall.methodName # NoId =>
        LET m == handlerCall.methodName
            E == DecoratedOf(m)
        IN /\ Len(handlerCall.handlerArgs) = Cardinality(E)
           /\ \A e \in E : handlerCall.handlerArgs[RankOf(e)] = BoundValue(e, handlerCall)
           /\ resolvers[m].args = {e.name : e \in {f \in E : f.type # "context"}}
           /\ \A e \in E : e.type = "context" => e.name \notin resolvers[m].args
           /\ FullyDecorated(m) =>
                \A e \in E : handlerCall.handlerArgs[e.index + 1] = BoundValue(e, handlerCall)

\* getById(ctx, name) decorated first parameter first, so that the metadata
\* lists index 1 before index 0, resolved with args { name: "x" }
C11_Witness ==
    /\ handlerCall.methodName = "getById"
    /\ handlerCall.args = [defined |-> TRUE, map |-> [n \in {"name"} |-> "x"]]
    /\ \E i, j \in 1..Len(argsMetadata) :
          /\ i < j
          /\ argsMetadata[i].methodName = "getById" /\ argsMetadata[i].index = 1
          /\ argsMetadata[i].type # "context" /\ argsMetadata[i].name = "name"
          /\ argsMetadata[j].methodName = "getById" /\ argsMetadata[j].index = 0
          /\ argsMetadata[j].type = "context"
    /\ handlerCall.handlerArgs = <<"ctx", "x">>

\* ------------------------------------------------------- mongoose hooks
\* the lists that name an operation, and the categories they stand for
ListsOf(hook) == {list \in HookLists : hook \in SeqToSet(hooksListOf(list))}

CategoriesOf(hook) == {operationOf(list) : list \in ListsOf(hook)}

\* an operation has been invoked
InFlight == invocation.phase # "idle"

\* the handler calls of the invocation made at a stage
CallsAt(stage) ==
    {i \in 1..Len(invocation.calls) : invocation.calls[i].stage = stage}

\* the categories of the handlers the invocation has fired at a stage
FiredAt(stage) == {invocation.calls[i].operation : i \in CallsAt(stage)}

\* C12 as stated: the invoked operation belongs to exactly one hook list and
\* fires handlers of a single category at each stage
C12_OneCategoryPerOperation ==
    InFlight =>
        /\ Cardinality(ListsOf(invocation.hook)) = 1
        /\ \A stage \in {"pre", "post"} : Cardinality(FiredAt(stage)) <= 1

\* C12 amended: the invoked operation belongs to at least one hook list, and
\* to exactly one unless it is one of findOneAndUpdate, update, updateMany,
\* updateOne, which READ_HOOKS and WRITE_HOOKS both name; at each stage it
\* fires only handlers of the categories whose lists name it
C12_CategoriesFollowLists ==
    InFlight =>
        LET h == invocation.hook IN
        /\ ListsOf(h) # {}
        /\ h \in UpdateHooks => ListsOf(h) = {"READ_HOOKS", "WRITE_HOOKS"}
        /\ h \notin UpdateHooks => Cardinality(ListsOf(h)) = 1
        /\ \A stage \in {"pre", "post"} : FiredAt(stage) \subseteq CategoriesOf(h)

\* an update fires a read handler and a write handler in its pre stage
C12_Witness ==
    /\ invocation.hook = "update"
    /\ FiredAt("pre") = {"read", "write"}

\* the invocation carries the skip flag: in saveOptions for a document save,
\* in options for any other operation
Flagged == IF invocation.hook = "save" THEN invocation.skipSave
           ELSE invocation.skipOptions

\* the wrappers registered for the invoked operation
WrappersOfInvocation ==
    {mongooseSchema[i] : i \in {j \in 1..Len(mongooseSchema) :
                                   mongooseSchema[j].hook = invocation.hook}}

\* the handler calls the invocation made through a wrapper
CallsThrough(w) ==
    {i \in 1..Len(invocation.calls) :
        /\ invocation.calls[i].handler = w.handler
        /\ invocation.calls[i].stage = w.stage}

\* a flagged invocation calls no handler
SkipSuppresses == (InFlight /\ Flagged) => invocation.calls = <<>>

\* an invocation leaves the registered wrappers as they are
StaysRegistered == [][invocation' # invocation => mongooseSchema' = mongooseSchema]_vars

\* a completed invocation without the flag that follows a flagged invocation
\* of the same operation has called every handler registered for it
LaterCallsAgain ==
    (invocation.phase = "complete" /\ invocation.afterSkipped /\ ~Flagged) =>
        \A w \in WrappersOfInvocation : CallsThrough(w) # {}

\* C13: for every registration function and operation name of its list, an
\* invocation carrying the skip flag calls no handler, the handler stays
\* registered, and a later invocation of the operation without the flag
\* calls it again
C13_SkipSuppressesOneInvocation ==
    [](SkipSuppresses /\ LaterCallsAgain) /\ StaysRegistered

\* a pending handler is the one the running wrapper awaits
AwaitedOnly ==
    \A i \in 1..Len(invocation.calls) :
        invocation.calls[i].state = "pending" =>
            invocation.wrapper = "awaiting" /\ i = Len(invocation.calls)

\* C14: the wrapper completes only after the handler it called: the
\* operation has run only if every handler of its pre stage has finished,
\* it is complete only if every handler has finished, a handler still
\* pending is awaited by the running wrapper, and a rejected handler has
\* failed the operation
C14_WrapperAwaitsHandler ==
    /\ invocation.phase \in {"post", "complete"} =>
          \A i \in CallsAt("pre") : invocation.calls[i].state = "resolved"
    /\ invocation.phase = "complete" =>
          \A i \in 1..Len(invocation.calls) : invocation.calls[i].state = "resolved"
    /\ AwaitedOnly
    /\ (\E i \in 1..Len(invocation.calls) : invocation.calls[i].state = "rejected")
          => invocation.phase = "failed"

\* the operation has run after its pre handler finished and waits for its
\* post handler
C14_Witness ==
    /\ invocation.phase = "post"
    /\ invocation.wrapper = "awaiting"
    /\ \E i \in CallsAt("pre") : invocation.calls[i].state = "resolved"
    /\ \E i \in CallsAt("post") : invocation.calls[i].state = "pending"

\* C15: every wrapper registered for an operation has an entry in the
\* argument table, and a completed invocation without a skip flag has called
\* the handler of every wrapper registered for the operation exactly once
C15_RegisteredHandlerCalledOnce ==
    /\ \A i \in 1..Len(mongooseSchema) :
          createHandlerArgs(mongooseSchema[i].stage, mongooseSchema[i].hook,
                            mongooseSchema[i].list).factory # NoId
    /\ (invocation.phase = "complete" /\ ~invocation.skipOptions
                                       /\ ~invocation.skipSave) =>
          \A w \in WrappersOfInvocation : Cardinality(CallsThrough(w)) = 1

\* ------------------------------------- two routes differing in body required
RECURSIVE createSchema(_, _, _)
\* createSchema(parametersConfig): mapSeries over the whole route
createSchema(parametersConfig, es, st) ==
    IF parametersConfig = <<>> THEN [ok |-> TRUE, es |-> es, st |-> st]
    ELSE Only({IF ~r.ok THEN r
               ELSE createSchema(Tail(parametersConfig), r.es, r.st)
               : r \in {createSchemaStep(Head(parametersConfig), es, st)}})

\* the route with the required flag of its body parameters inverted
FlipBodyRequired(route) ==
    [i \in 1..Len(route) |->
        IF route[i].source = "body" THEN [route[i] EXCEPT !.required = ~@]
        ELSE route[i]]

\* mapSeries goes through the next parameterConfig of the first route
TwinStep ==
    /\ twin.pc = "mapSeries"
    /\ Len(twin.route) < MaxSteps
    /\ \E p \in ValidationParams :
         LET r == createSchemaStep(p, twin.a.es, twin.st) IN
         twin' = [twin EXCEPT !.route = Append(@, p),
                              !.st = r.st,
                              !.a.es = r.es,
                              !.pc = IF r.ok THEN "mapSeries" ELSE "rangeError"]
    /\ UNCHANGED <<validatorVars, resolverVars, hookVars>>

\* createValidatorFunction compiles the predicates of the first route
TwinFinish ==
    /\ twin.pc = "mapSeries"
    /\ LET fns == compileValidateFns(twin.a.es) IN
       twin' = IF \E i \in 1..Len(fns) : ajvCompileThrows(fns[i].schema)
               THEN [twin EXCEPT !.pc = "compileError"]
               ELSE [twin EXCEPT !.pc = "second", !.a.fns = fns]
    /\ UNCHANGED <<validatorVars, resolverVars, hookVars>>

\* createValidatorFunction is called on the second route
TwinSecond ==
    /\ twin.pc = "second"
    /\ LET r == createSchema(FlipBodyRequired(twin.route), EmptyEndpointSchema, twin.st)
           fns == compileValidateFns(r.es)
       IN twin' = IF ~r.ok \/ \E i \in 1..Len(fns) : ajvCompileThrows(fns[i].schema)
                  THEN [twin EXCEPT !.pc = "secondThrew", !.st = r.st]
                  ELSE [twin EXCEPT !.pc = "ready", !.st = r.st,
                                    !.b.es = r.es, !.b.fns = fns]
    /\ UNCHANGED <<validatorVars, resolverVars, hookVars>>

\* both validation functions are invoked on the same request data
TwinValidate ==
    /\ twin.pc = "ready"
    /\ \E data \in RequestData :
         twin' = [twin EXCEPT
                    !.pc = "validated",
                    !.a.outcome = validationFunction(twin.a.fns, data, twin.st.ajv),
                    !.b.outcome = validationFunction(twin.b.fns, data, twin.st.ajv)]
    /\ UNCHANGED <<validatorVars, resolverVars, hookVars>>

NextTwin == TwinStep \/ TwinFinish \/ TwinSecond \/ TwinValidate

SpecTwin == Init /\ [][NextTwin]_vars

\* the route has a body parameter whose validation is enabled, last of its
\* body parameters
BodyChecked ==
    LET body == SelectSeq(twin.route, LAMBDA p : p.source = "body")
    IN body # <<>> /\ ~body[Len(body)].disabled

\* C16: two routes that differ only in the required flag of the body compile
\* alike, and their validation functions accept and reject the same requests
\* with the same errors
C16_BodyVerdictIgnoresRequired ==
    /\ twin.pc # "secondThrew"
    /\ twin.pc \in {"ready", "validated"} =>
          [i \in 1..Len(twin.a.fns) |-> twin.a.fns[i].source]
            = [i \in 1..Len(twin.b.fns) |-> twin.b.fns[i].source]
    /\ twin.pc = "validated" =>
          /\ twin.a.outcome.status = twin.b.outcome.status
          /\ twin.a.outcome.errors = twin.b.outcome.errors

\* a route with a required body and the same route with an optional body
\* both reject a request without body, with the one error of the body
C16_Witness ==
    /\ twin.pc = "validated"
    /\ BodyChecked
    /\ twin.a.es.required # twin.b.es.required
    /\ Field(twin.a.outcome.data, "body") = Undefined
    /\ twin.a.outcome.status = "BadRequest"
    /\ twin.b.outcome.status = "BadRequest"
    /\ \E i \in 1..Len(twin.b.outcome.errors) :
          twin.b.outcome.errors[i].instancePath = <<"/", "body">>


====
